---- MODULE Spec2Model ----
(***************************************************************************)
(* Model of the browser voice client, frontend/src/VoiceAgent.js, and of   *)
(* its message builders, frontend/src/helper/BidiEventHelpers.js.          *)
(*                                                                         *)
(* The component is a React class component.  Its fields live in two       *)
(* places: `this.state` (read through this.state, written through          *)
(* this.setState) and plain instance fields (this.socket,                  *)
(* this.mediaRecorder, this.audioBufferSize).  setState does not write     *)
(* this.state: it queues an update that React applies later.  Every        *)
(* setState call of the component passes an object, so a queue of updates  *)
(* applied in order equals, field by field, the last value queued: the     *)
(* variable `pending` keeps that value per field.  A click handler runs    *)
(* inside a React event, whose updates React applies before the handler's  *)
(* event ends; socket and promise callbacks run outside React events, and  *)
(* their updates are applied by the separate step Flush, which may come    *)
(* right after the callback (synchronous setState) or after further        *)
(* callbacks (batched setState).                                           *)
(*                                                                         *)
(* chatMessages is the one state field the component mutates in place      *)
(* (`chatMessages[key] = ...` on the object held by this.state), so a      *)
(* write to it is visible at once; it is a variable of its own, kept in    *)
(* insertion order, which is the order Object.entries yields its keys.     *)
(***************************************************************************)
EXTENDS Integers, Sequences, FiniteSets, TLC

\* ------------------------------------------------------------------ bounds
MaxSockets == 2      \* WebSocket objects created in one run
MaxMics == 2         \* getUserMedia requests made in one run
MaxFinals == 2       \* final transcript fragments handled between two resets
MaxSessionIds == 2   \* session ids generated in one run
MaxSent == 2         \* messages recorded per socket
MaxSessions == 1     \* sessions that open a socket, in a run of the session lifecycle
MaxQueued == 2       \* chunks in the playback queue
MaxInbound == 4      \* inbound messages handled between two cleanups of the event log
MaxAudioIn == 17     \* the same, in a run of inbound audio only
MaxBuilt == 2        \* calls made in a run of the message builders alone

\* ------------------------------------------------------- program constants
MAX_AUDIO_CHUNK_SIZE == 65536
MAX_AUDIO_BUFFER_SIZE == 1048576
NormalClosure == 1000
NoStatusReceived == 1005

SockIds == 1..MaxSockets
MicIds == 1..MaxMics
NoSocket == 0
NoRecorder == 0

\* ---------------------------------------------------------------- inputs
Roles == {"user", "assistant"}
NoRole == ""                    \* message.role missing: falsy in `!role`
Texts == {"turn the", "turn the light on"}
Undefined == "<undefined>"      \* message.text missing: `text === undefined`
AudioSizes == {32768, MAX_AUDIO_CHUNK_SIZE, MAX_AUDIO_CHUNK_SIZE + 1, 70000}
CloseCodes == {NormalClosure, NoStatusReceived, 1006, 4001}
NoReason == ""
Reasons == {NoReason, "timeout"}
ErrorTexts == {NoReason, "tool failed"}

\* the arguments of the message builders; a session id that is not supplied
\* (undefined) is 0 and an empty one ("") is -1, the ids proper are 1, 2, ...
Voices == {"matthew", "tiffany"}
NoSessionId == 0
EmptySessionId == 0 - 1
SessionIdArgs == {NoSessionId, EmptySessionId, 1, 2}
TextArgs == Texts \cup {""}

\* message.data of an audio message: base64 text of `size` characters, text of
\* that length that is not base64, or no data at all
Base64 == "base64"
Garbled == "garbled"
Msg(t, r, x, f, n, why) ==
    [type |-> t, role |-> r, text |-> x, is_final |-> f, size |-> n, reason |-> why,
     data |-> IF t = "bidi_audio_stream" THEN Base64 ELSE Undefined]

\* interim fragments carry either text, final fragments the whole sentence
InterimMsgs ==
    {Msg("bidi_transcript_stream", r, x, FALSE, 0, NoReason) :
        r \in Roles \cup {NoRole}, x \in Texts \cup {Undefined}}
FinalMsgs ==
    {Msg("bidi_transcript_stream", r, x, TRUE, 0, NoReason) :
        r \in Roles \cup {NoRole}, x \in {"turn the light on", Undefined}}
TranscriptMsgs == InterimMsgs \cup FinalMsgs
AudioMsgs == {Msg("bidi_audio_stream", NoRole, Undefined, FALSE, n, NoReason) : n \in AudioSizes}
\* audio messages without data, and with data that does not decode
BadAudioMsgs ==
    {[Msg("bidi_audio_stream", NoRole, Undefined, FALSE, 0, NoReason) EXCEPT !.data = Undefined]}
    \cup {[m EXCEPT !.data = Garbled] : m \in AudioMsgs}
ConnectionCloseMsgs ==
    {Msg("bidi_connection_close", NoRole, Undefined, FALSE, 0, why) : why \in Reasons}
ErrorMsgs == {Msg("bidi_error", NoRole, Undefined, FALSE, 0, why) : why \in ErrorTexts}
InterruptionMsgs == {Msg("bidi_interruption", NoRole, Undefined, FALSE, 0, NoReason)}
\* the lifecycle messages that are only logged, and a type the client does not know
InfoTypes ==
    {"bidi_connection_start", "bidi_connection_restart", "bidi_response_start",
     "bidi_response_complete", "bidi_usage"}
InfoMsgs == {Msg(t, NoRole, Undefined, FALSE, 0, NoReason) : t \in InfoTypes}

\* a JSON object without a type: message.type is undefined
NoType == "<undefined>"
TypelessMsgs == {Msg(NoType, NoRole, Undefined, FALSE, 0, NoReason)}

\* What JSON.parse makes of the data of a frame: it throws, it returns null, or it
\* returns a value with fields.
Frame(m) == [parse |-> "value", value |-> m]
BadFrames ==
    {[parse |-> p, value |-> Msg(NoType, NoRole, Undefined, FALSE, 0, NoReason)] :
        p \in {"throws", "null"}}

WellFormed(m) == m.type = "bidi_transcript_stream" /\ m.role # NoRole /\ m.text # Undefined
\* the fragments of the user's sentence
UserMsgs == {m \in TranscriptMsgs : WellFormed(m) /\ m.role = "user"}

\* ------------------------------------------------------------- chat keys
\* `${role}-${counter}` and `${role}-interim`
Key(r, i, n) == [role |-> r, interim |-> i, seq |-> n]
NoKey == Key(NoRole, FALSE, 0)          \* currentTranscriptKey: null
FinalKey(role, counter) == Key(role, FALSE, counter)

HasKey(chat, key) == \E i \in 1..Len(chat) : chat[i].key = key
EntryOf(chat, key) == chat[CHOOSE i \in 1..Len(chat) : chat[i].key = key]

\* currentKey && chatMessages[currentKey]?.role === role ? currentKey : `${role}-interim`
InterimKey(currentKey, chat, role) ==
    IF currentKey # NoKey /\ HasKey(chat, currentKey) /\ EntryOf(chat, currentKey).role = role
    THEN currentKey
    ELSE Key(role, TRUE, 0)

\* chatMessages[key] = {content, role}: an existing key keeps its place, a new
\* key goes last
ChatAppend(chat, key, text, role) ==
    Append(chat, [key |-> key, content |-> text, role |-> role])
\* (C29 mutation of ChatPut: an entry that exists is not written again)
ChatPutKeepsExisting(chat, key, text, role) ==
    IF HasKey(chat, key) THEN chat ELSE ChatAppend(chat, key, text, role)
\* (C5 mutation of ChatPut: the assignment always adds an entry)
ChatPutAddsEntry(chat, key, text, role) == ChatAppend(chat, key, text, role)
ChatPut(chat, key, text, role) ==
    IF HasKey(chat, key)
    THEN [i \in 1..Len(chat) |->
            IF chat[i].key = key THEN [key |-> key, content |-> text, role |-> role]
            ELSE chat[i]]
    ELSE ChatAppend(chat, key, text, role)


\* ----------------------------------------------------------------- alerts
\* Every alert object the component builds has dismissible: true; the Alert element
\* reads `alert.dismissible !== false`, which is true for the bare string as well.
Alert(t, m, c, r) ==
    [type |-> t, message |-> m, code |-> c, showRestart |-> r, dismissible |-> TRUE]
NoAlert == Alert("none", "", 0, FALSE)                       \* alert: null
ConnectionLostAlert ==
    Alert("warning", "Connection lost unexpectedly. Please restart your conversation.", 0, TRUE)
ClosedUnexpectedlyAlert(code) ==
    Alert("error", "Connection closed unexpectedly (code). Please restart your conversation.",
          code, TRUE)
SocketErrorAlert ==
    Alert("error", "WebSocket connection error. Please restart your conversation.", 0, TRUE)
ConnectionCloseAlert(reason) ==
    Alert("warning",
          IF reason # NoReason THEN reason
          ELSE "Connection closed. Please restart your conversation.", 0, TRUE)
BidiErrorAlert(message) ==
    Alert("error", IF message # NoReason THEN message ELSE "An error occurred.", 0, TRUE)
\* setState({alert: `Error accessing microphone: ${error.message}`}): a bare string
MicrophoneErrorAlert == Alert("string", "Error accessing microphone: ", 0, FALSE)

\* ------------------------------------------------------------------ state
VARIABLES
    state,            \* this.state, as last applied by React
    pending,          \* the setState updates queued and not yet applied
    chatMessages,     \* this.state.chatMessages, mutated in place
    socket,           \* this.socket: a socket id, or NoSocket
    socks,            \* every WebSocket object created: its phase and what it sent
    mediaRecorder,    \* this.mediaRecorder: a capture pipeline id, or NoRecorder
    mics,             \* every getUserMedia request made and the pipeline built on it
    audioBufferSize,  \* this.audioBufferSize
    played,           \* the chunk lengths handed to this.audioPlayer.playAudio
    playQueue,        \* this.audioPlayer: the chunks playing or queued, the playing one first
    eventLog,         \* the outbound entries shown by the EventDisplay since its last cleanup
    eventsIn,         \* the number of inbound entries it has shown since then
    finalsHandled,    \* history: well-formed final fragments handled since the last reset
    handledIn,        \* history: messages handleIncomingMessage was called with since that cleanup
    skippedAt,        \* history: <<handledIn>> as it was when a frame was last skipped
    silenced,         \* history: chunks the last interruption discarded, 0 once a chunk is accepted
    overflowAt,       \* history: <<handledIn>> as it was when a chunk that decodes last took the counter over the limit
    micEndedBy,       \* history: per getUserMedia request, who ran endSession since it was made
    sockEndedBy,      \* history: per socket, who ran endSession while it was this.socket
    built             \* the calls of the message builders made directly, each with its result

vars == <<state, pending, chatMessages, socket, socks, mediaRecorder, mics,
          audioBufferSize, played, playQueue, eventLog, eventsIn, finalsHandled,
          handledIn, skippedAt, silenced, overflowAt, micEndedBy, sockEndedBy, built>>

StateFields ==
    {"status", "alert", "sessionStarted", "messageCounter", "currentTranscriptKey", "sessionId",
     "configVoiceId"}

\* constructor: this.state = {...}, then componentDidMount's setState({status: "loaded"})
InitialState ==
    [status |-> "loaded", alert |-> NoAlert, sessionStarted |-> FALSE, messageCounter |-> 0,
     currentTranscriptKey |-> NoKey, sessionId |-> 1, configVoiceId |-> "matthew"]
NoPending == [f \in StateFields |-> <<>>]

\* The component instance as one value, so that a handler is a function of it.
This ==
    [state |-> state, pending |-> pending, chatMessages |-> chatMessages, socket |-> socket,
     socks |-> socks, mediaRecorder |-> mediaRecorder, mics |-> mics,
     audioBufferSize |-> audioBufferSize, played |-> played, playQueue |-> playQueue,
     eventLog |-> eventLog, eventsIn |-> eventsIn]

Become(c) ==
    /\ state' = c.state
    /\ pending' = c.pending
    /\ chatMessages' = c.chatMessages
    /\ socket' = c.socket
    /\ socks' = c.socks
    /\ mediaRecorder' = c.mediaRecorder
    /\ mics' = c.mics
    /\ audioBufferSize' = c.audioBufferSize
    /\ played' = c.played
    /\ playQueue' = c.playQueue
    /\ eventLog' = c.eventLog
    /\ eventsIn' = c.eventsIn

\* this.setState(upd): queue the fields of upd
setState(c, upd) ==
    [c EXCEPT !.pending =
        [f \in StateFields |-> IF f \in DOMAIN upd THEN <<upd[f]>> ELSE c.pending[f]]]

\* this.state once React has applied what is queued
Applied(st, pend) ==
    [f \in StateFields |-> IF pend[f] # <<>> THEN pend[f][1] ELSE st[f]]
flush(c) == [c EXCEPT !.state = Applied(c.state, c.pending), !.pending = NoPending]

\* socket.readyState
readyState(c, s) ==
    IF c.socks[s].phase \in {"FAILED", "DONE"} THEN "CLOSED" ELSE c.socks[s].phase


\* --------------------------------------------------------- BidiEventHelpers
\* The base64 payload of an audio message is modelled by its length.
audioInput(base64Data) == [type |-> "bidi_audio_input", data |-> base64Data]
textInput(text) == [type |-> "bidi_text_input", text |-> text]
\* (C30 mutation of config: the session id is always set)
configAlwaysWithSession(voiceId, sessionId) ==
    [type |-> "config", voice_id |-> voiceId, session_id |-> sessionId]
\* `if (sessionId)`: undefined and "" are falsy
config(voiceId, sessionId) ==
    IF sessionId \notin {NoSessionId, EmptySessionId}
    THEN [type |-> "config", voice_id |-> voiceId, session_id |-> sessionId]
    ELSE [type |-> "config", voice_id |-> voiceId]
close == [type |-> "close"]

\* ---------------------------------------------------------------- handlers
\* event.timestamp = Date.now(), line 81
Stamped(event) == event @@ [timestamp |-> "Date.now()"]

\* (C17 mutation of sendEvent: the state of the socket is not looked at)
sendEventAnyState(c, event) ==
    IF c.socket # NoSocket
    THEN [c EXCEPT !.socks[c.socket].sent = Append(@, event),
                   !.eventLog = Append(@, Stamped(event))]
    ELSE c
\* sendEvent: line 80 sends the string JSON.stringify makes of the event as it is
\* then; line 81 stamps the event object, which line 84 hands to the EventDisplay
sendEvent(c, event) ==
    IF c.socket # NoSocket /\ readyState(c, c.socket) = "OPEN"
    THEN [c EXCEPT !.socks[c.socket].sent = Append(@, event),
                   !.eventLog = Append(@, Stamped(event))]
    ELSE c

\* AudioPlayer.playAudio: the decoded chunk goes to the end of the play queue
playAudio(queue, chunk) == Append(queue, chunk)
\* AudioPlayer.bargeIn: what plays is stopped and what is queued is discarded
bargeIn(queue) == <<>>

\* (C21 mutation of cancelAudio: the player is not told)
cancelAudioKeepsQueue(c) == c
\* this.audioPlayer.bargeIn(); this.setState({isPlaying: false}): isPlaying is read
\* nowhere in the component
cancelAudio(c) == [c EXCEPT !.playQueue = bargeIn(@)]

\* endSession, lines 386-395: stop the microphone held in this.mediaRecorder
stopMicrophone(c) ==
    IF c.mediaRecorder # NoRecorder
    THEN [c EXCEPT !.mics[c.mediaRecorder] = "stopped", !.mediaRecorder = NoRecorder]
    ELSE c

\* endSession, lines 397-406: send `close` and close the socket, if it is open
closeSocket(c) ==
    IF c.socket # NoSocket /\ readyState(c, c.socket) = "OPEN"
    THEN [sendEvent(c, close) EXCEPT !.socks[c.socket].phase = "CLOSING"]
    ELSE c

\* (C39 mutation of endSession: `close` is sent on the socket whatever its state,
\* and the reference to it is kept)
endSessionKeepsSocket(c) ==
    LET c1 == stopMicrophone(c)
        c2 == IF c1.socket # NoSocket
              THEN [c1 EXCEPT !.socks[c1.socket].sent = Append(@, close),
                              !.socks[c1.socket].phase = "CLOSING",
                              !.eventLog = Append(@, Stamped(close))]
              ELSE c1
    IN  setState([c2 EXCEPT !.audioBufferSize = 0],
                 [sessionStarted |-> FALSE, status |-> "disconnected"])
\* endSession
endSession(c) ==
    LET c1 == closeSocket(stopMicrophone(c))
        c2 == [c1 EXCEPT !.socket = NoSocket, !.audioBufferSize = 0]
    IN  setState(c2, [sessionStarted |-> FALSE, status |-> "disconnected"])

\* (C15 mutation of audioStream: an oversized chunk is played though not counted)
audioStreamPlaysAll(c, message) ==
    LET sum == c.audioBufferSize + message.size
    IN  IF message.data # Base64 THEN c
        ELSE IF message.size > MAX_AUDIO_CHUNK_SIZE
        THEN [c EXCEPT !.played = @ \cup {message.size},
                       !.playQueue = playAudio(@, message.size)]
        ELSE [c EXCEPT !.audioBufferSize =
                           IF sum > MAX_AUDIO_BUFFER_SIZE THEN message.size ELSE sum,
                       !.played = @ \cup {message.size},
                       !.playQueue = playAudio(@, message.size)]
\* (C16 mutation of audioStream: the counter is reset when it reaches the limit)
audioStreamResetsAtLimit(c, message) ==
    IF message.data = Undefined THEN c
    ELSE IF message.size > MAX_AUDIO_CHUNK_SIZE THEN c
    ELSE LET sum == c.audioBufferSize + message.size
             counted == [c EXCEPT !.audioBufferSize =
                            IF sum >= MAX_AUDIO_BUFFER_SIZE THEN message.size ELSE sum]
         IN  IF message.data # Base64 THEN counted
             ELSE [counted EXCEPT !.played = @ \cup {message.size},
                                  !.playQueue = playAudio(@, message.size)]
\* base64ToFloat32Array: the samples of base64 text; text that is not base64 makes
\* it throw
base64ToFloat32Array(data, n) == [throws |-> data # Base64, samples |-> n]

\* (C34 mutation of audioStream: the data is handed to the player as it came)
audioStreamPlaysUndecoded(c, message) ==
    IF message.data = Undefined THEN c
    ELSE IF message.size > MAX_AUDIO_CHUNK_SIZE THEN c
    ELSE LET sum == c.audioBufferSize + message.size
         IN  [c EXCEPT !.audioBufferSize =
                           IF sum > MAX_AUDIO_BUFFER_SIZE THEN message.size ELSE sum,
                       !.played = @ \cup {message.size},
                       !.playQueue = playAudio(@, message.size)]
\* (C33 mutation of audioStream: the chunk that overflows the counter is dropped)
audioStreamDropsOverflow(c, message) ==
    IF message.data = Undefined THEN c
    ELSE IF message.size > MAX_AUDIO_CHUNK_SIZE THEN c
    ELSE LET sum == c.audioBufferSize + message.size
             counted == [c EXCEPT !.audioBufferSize =
                            IF sum > MAX_AUDIO_BUFFER_SIZE THEN message.size ELSE sum]
             audioData == base64ToFloat32Array(message.data, message.size)
         IN  IF audioData.throws \/ sum > MAX_AUDIO_BUFFER_SIZE THEN counted
             ELSE [counted EXCEPT !.played = @ \cup {audioData.samples},
                                  !.playQueue = playAudio(@, audioData.samples)]
\* case "bidi_audio_stream": `message.data.length` throws when there is no data,
\* before anything is counted; the decoder throws after the chunk is counted; the
\* catch logs either and the chunk is skipped
audioStream(c, message) ==
    IF message.data = Undefined THEN c
    ELSE IF message.size > MAX_AUDIO_CHUNK_SIZE THEN c
    ELSE LET sum == c.audioBufferSize + message.size
             counted == [c EXCEPT !.audioBufferSize =
                            IF sum > MAX_AUDIO_BUFFER_SIZE THEN message.size ELSE sum]
             audioData == base64ToFloat32Array(message.data, message.size)
         IN  IF audioData.throws THEN counted
             ELSE [counted EXCEPT !.played = @ \cup {audioData.samples},
                                  !.playQueue = playAudio(@, audioData.samples)]

\* (C31 mutation of finalTranscript: the final fragment closes every open interim
\* entry, of either role)
finalTranscriptClosesAll(c, role, text) ==
    LET counter == c.state.messageCounter + 1
        key == FinalKey(role, counter)
    IN  setState([c EXCEPT !.chatMessages = ChatPut(SelectSeq(@, LAMBDA e : ~e.key.interim), key, text, role)],
                 [messageCounter |-> counter, currentTranscriptKey |-> NoKey])
\* case "bidi_transcript_stream", is_final: the counter is read from this.state
finalTranscript(c, role, text) ==
    LET counter == c.state.messageCounter + 1
        key == FinalKey(role, counter)
    IN  setState([c EXCEPT !.chatMessages = ChatPut(@, key, text, role)],
                 [messageCounter |-> counter, currentTranscriptKey |-> NoKey])

\* case "bidi_transcript_stream", not is_final
interimTranscript(c, role, text) ==
    LET key == InterimKey(c.state.currentTranscriptKey, c.chatMessages, role)
    IN  setState([c EXCEPT !.chatMessages = ChatPut(@, key, text, role)],
                 [currentTranscriptKey |-> key])

\* (C32 mutation of transcriptStream: the fragment is handled without the check of
\* role and text)
transcriptStreamUnchecked(c, message) ==
    IF message.is_final THEN finalTranscript(c, message.role, message.text)
    ELSE interimTranscript(c, message.role, message.text)

\* case "bidi_transcript_stream": `if (!role || text === undefined) break;`
transcriptStream(c, message) ==
    IF message.role = NoRole \/ message.text = Undefined THEN c
    ELSE IF message.is_final THEN finalTranscript(c, message.role, message.text)
    ELSE interimTranscript(c, message.role, message.text)

\* case "bidi_connection_close"
connectionClose(c, message) ==
    LET c1 == setState(c, [alert |-> ConnectionCloseAlert(message.reason)])
    IN  IF c.state.sessionStarted
        THEN setState(endSession(c1), [sessionStarted |-> FALSE])
        ELSE c1

\* (C12 mutation of bidiError: the error tears the session down as a close does)
bidiErrorEndsSession(c, message) ==
    setState(endSession(c), [alert |-> BidiErrorAlert(message.reason), sessionStarted |-> FALSE])
\* case "bidi_error"; the text of the message is carried in the field reason
bidiError(c, message) == setState(c, [alert |-> BidiErrorAlert(message.reason)])

\* the switch of handleIncomingMessage
dispatch(c, message) ==
    CASE message.type = "bidi_audio_stream" -> audioStream(c, message)
      [] message.type = "bidi_transcript_stream" -> transcriptStream(c, message)
      [] message.type = "bidi_interruption" -> cancelAudio(c)
      [] message.type = "bidi_connection_close" -> connectionClose(c, message)
      [] message.type = "bidi_error" -> bidiError(c, message)
      [] OTHER -> c

\* EventDisplay.displayEvent(message, "in"): one more inbound entry
displayIn(c) == [c EXCEPT !.eventsIn = @ + 1]

\* (C25 mutation of handleIncomingMessage: a message no case acts on is reported
\* as an error)
handleUnknownAsError(c, message) ==
    IF message.type \in {"bidi_audio_stream", "bidi_transcript_stream", "bidi_interruption",
                         "bidi_connection_close", "bidi_error"}
    THEN displayIn(dispatch(c, message))
    ELSE displayIn(bidiError(c, message))
\* every case of the switch ends in a break, so that line 207 is reached
handleIncomingMessage(c, message) == displayIn(dispatch(c, message))

\* (C26 mutation of onmessage: a frame that cannot be handled is treated as a
\* failure of the connection)
onmessageFailsConnection(c, frame) ==
    IF frame.parse = "value" THEN handleIncomingMessage(c, frame.value)
    ELSE LET c1 == setState(c, [status |-> "disconnected", alert |-> SocketErrorAlert])
         IN  IF c.state.sessionStarted
             THEN setState(endSession(c1), [sessionStarted |-> FALSE])
             ELSE c1
\* socket.onmessage: JSON.parse throws a SyntaxError on data that is not JSON, and
\* `message.type` throws a TypeError on null; neither is caught, and the handler
\* ends there
onmessage(c, frame) ==
    CASE frame.parse = "throws" -> c
      [] frame.parse = "null" -> c
      [] OTHER -> handleIncomingMessage(c, frame.value)

\* socket.onopen
onopen(c) ==
    sendEvent(setState(c, [status |-> "connected"]),
              config(c.state.configVoiceId, c.state.sessionId))

\* (C11 mutation of onerror: the alert is set and the session is left running)
onerrorAlertOnly(c) == setState(c, [status |-> "disconnected", alert |-> SocketErrorAlert])
\* socket.onerror
onerror(c) ==
    LET c1 == setState(c, [status |-> "disconnected", alert |-> SocketErrorAlert])
    IN  IF c.state.sessionStarted
        THEN setState(endSession(c1), [sessionStarted |-> FALSE])
        ELSE c1

\* (C9 mutation of closeAlert: code 1005 is not told apart from the other codes)
closeAlertByCodeOnly(code, c) ==
    IF code # NormalClosure THEN setState(c, [alert |-> ClosedUnexpectedlyAlert(code)])
    ELSE c
\* socket.onclose, lines 284-302: the alert a close code sets, given the alert queued
closeAlert(code, c) ==
    IF code = NoStatusReceived THEN setState(c, [alert |-> ConnectionLostAlert])
    ELSE IF code # NormalClosure THEN setState(c, [alert |-> ClosedUnexpectedlyAlert(code)])
    ELSE c

\* (C22 mutation of onclose: a closed connection is opened again at once)
oncloseReconnects(c, code) ==
    LET c1 == closeAlert(code, setState(c, [status |-> "disconnected"]))
        free == {s \in DOMAIN c.socks : c.socks[s].phase = "none"}
        next == CHOOSE s \in free : \A t \in free : s <= t
    IN  IF free # {}
        THEN [c1 EXCEPT !.socket = next, !.socks[next] = [phase |-> "CONNECTING", sent |-> <<>>]]
        ELSE c1
\* socket.onclose
onclose(c, code) ==
    LET c1 == closeAlert(code, setState(c, [status |-> "disconnected"]))
    IN  IF c.state.sessionStarted
        THEN setState(endSession(c1), [sessionStarted |-> FALSE])
        ELSE c1


\* the next WebSocket object and the next getUserMedia request
FreshSocks(c) == {s \in SockIds : c.socks[s].phase = "none"}
FreshMics(c) == {m \in MicIds : c.mics[m] = "none"}
NewSock(c) == CHOOSE s \in FreshSocks(c) : \A t \in FreshSocks(c) : s <= t
NewMic(c) == CHOOSE m \in FreshMics(c) : \A t \in FreshMics(c) : m <= t

\* the condition of lines 228 and 243
NeedsSocket(c) == IF c.socket = NoSocket THEN TRUE ELSE readyState(c, c.socket) # "OPEN"

\* a start stays within the sockets and requests of a run
CanStart(c, urlOK) ==
    IF NeedsSocket(c) THEN ~urlOK \/ (FreshMics(c) # {} /\ FreshSocks(c) # {})
    ELSE FreshMics(c) # {}

\* (C27 mutation of connectWebSocket: the status is set when the socket is created)
connectWebSocketSetsStatus(c) ==
    IF NeedsSocket(c)
    THEN setState([c EXCEPT !.socket = NewSock(c),
                            !.socks[NewSock(c)] = [phase |-> "CONNECTING", sent |-> <<>>]],
                  [status |-> "connecting"])
    ELSE c
\* connectWebSocket, when `new WebSocket(url)` does not throw
connectWebSocket(c) ==
    IF NeedsSocket(c)
    THEN [c EXCEPT !.socket = NewSock(c),
                   !.socks[NewSock(c)] = [phase |-> "CONNECTING", sent |-> <<>>]]
    ELSE c

\* startMicrophone up to its first await: the getUserMedia request is made
startMicrophone(c) == [c EXCEPT !.mics[NewMic(c)] = "pending"]

\* (C24 mutation of startSession: the chat log and the counter of the last session
\* are kept)
startSessionKeepsChat(c, urlOK) ==
    LET c1 == [c EXCEPT !.eventLog = <<>>, !.eventsIn = 0]
    IN  IF NeedsSocket(c1) /\ ~urlOK
        THEN setState(c1, [alert |-> MicrophoneErrorAlert])
        ELSE startMicrophone(connectWebSocket(c1))
\* handleSessionChange, start branch.  urlOK: `new WebSocket(url)` accepts the URL
\* (it throws a SyntaxError otherwise, which the catch of line 234 receives).
\* startMicrophone is async: a failure of it rejects its promise and is never thrown
\* into this try block.
startSession(c, urlOK) ==
    LET c1 == [setState(c, [messageCounter |-> 0, currentTranscriptKey |-> NoKey])
                 EXCEPT !.chatMessages = <<>>, !.eventLog = <<>>, !.eventsIn = 0]
        c2 == IF NeedsSocket(c1) /\ ~urlOK
              THEN setState(c1, [alert |-> MicrophoneErrorAlert])
              ELSE startMicrophone(connectWebSocket(c1))
    IN  c2

handleSessionChange(c, urlOK) ==
    LET c1 == IF c.state.sessionStarted
              THEN cancelAudio(endSession(c))
              ELSE startSession(c, urlOK)
    IN  setState(c1, [sessionStarted |-> ~c.state.sessionStarted])

\* the onClick of the Restart Conversation button of the alert
restartConversation(c, urlOK) ==
    LET c1 == setState(c, [alert |-> NoAlert])
    IN  IF ~c.state.sessionStarted THEN handleSessionChange(c1, urlOK) ELSE c1

\* the onClick of the New Session button
newSession(c) ==
    LET c1 == IF c.state.sessionStarted THEN cancelAudio(endSession(c)) ELSE c
    IN  [setState(c1, [sessionId |-> c.state.sessionId + 1, messageCounter |-> 0,
                       currentTranscriptKey |-> NoKey, sessionStarted |-> FALSE])
           EXCEPT !.chatMessages = <<>>, !.eventLog = <<>>, !.eventsIn = 0]

\* (C14 mutation of onaudioprocess: the length of the chunk is not checked)
onaudioprocessAnyLength(c, size) ==
    IF c.state.sessionStarted THEN sendEvent(c, audioInput(size)) ELSE c
\* processor.onaudioprocess, for a captured chunk whose base64 length is size
onaudioprocess(c, size) ==
    IF c.state.sessionStarted /\ size <= MAX_AUDIO_CHUNK_SIZE
    THEN sendEvent(c, audioInput(size))
    ELSE c

\* renderChatMessages: parseInt(key.split('-').pop()) || 0
KeyNum(key) == IF key.interim THEN 0 ELSE key.seq

\* Array.prototype.sort with (a, b) => aNum - bNum: stable, ascending
RECURSIVE SortByNum(_)
InsertByNum(sorted, e) ==
    LET before == {i \in 1..Len(sorted) : KeyNum(sorted[i].key) <= KeyNum(e.key)}
        n == Cardinality(before)
    IN  SubSeq(sorted, 1, n) \o <<e>> \o SubSeq(sorted, n + 1, Len(sorted))
SortByNum(entries) ==
    IF entries = <<>> THEN <<>>
    ELSE InsertByNum(SortByNum(SubSeq(entries, 1, Len(entries) - 1)), entries[Len(entries)])

Shown(entry) == entry.role \in {"user", "assistant"}
renderChatMessages(chat) == SelectSeq(SortByNum(chat), Shown)


\* ---------------------------------------------------------------- history
IsFinalEntry(e) == ~e.key.interim
FinalSeqs(chat) == {chat[i].key.seq : i \in {j \in 1..Len(chat) : IsFinalEntry(chat[j])}}
MaxSeq(chat) ==
    IF FinalSeqs(chat) = {} THEN 0
    ELSE CHOOSE n \in FinalSeqs(chat) : \A k \in FinalSeqs(chat) : k <= n

RequestedMics == {m \in MicIds : mics[m] # "none"}
\* endSession ran, called by `who`: the user, or the handler of a socket error, of a
\* socket close, or of a bidi_connection_close message
Ended(who) ==
    /\ micEndedBy' = [m \in MicIds |-> IF m \in RequestedMics THEN micEndedBy[m] \cup {who}
                                       ELSE micEndedBy[m]]
    /\ sockEndedBy' = [s \in SockIds |-> IF s = socket THEN sockEndedBy[s] \cup {who}
                                         ELSE sockEndedBy[s]]
NotEnded == UNCHANGED <<micEndedBy, sockEndedBy>>

\* -------------------------------------------------------------------- Init
Init ==
    /\ state = InitialState
    /\ pending = NoPending
    /\ chatMessages = <<>>
    /\ socket = NoSocket
    /\ socks = [s \in SockIds |-> [phase |-> "none", sent |-> <<>>]]
    /\ mediaRecorder = NoRecorder
    /\ mics = [m \in MicIds |-> "none"]
    /\ audioBufferSize = 0
    /\ played = {}
    /\ playQueue = <<>>
    /\ eventLog = <<>>
    /\ eventsIn = 0
    /\ finalsHandled = 0
    /\ silenced = 0
    /\ overflowAt = <<>>
    /\ skippedAt = <<>>
    /\ handledIn = 0
    /\ micEndedBy = [m \in MicIds |-> {}]
    /\ sockEndedBy = [s \in SockIds |-> {}]
    /\ built = <<>>

\* ----------------------------------------------------------------- actions
\* React applies the queued updates
Flush ==
    /\ pending # NoPending
    /\ Become(flush(This))
    /\ UNCHANGED built
    /\ UNCHANGED <<finalsHandled, handledIn, skippedAt, silenced, overflowAt, micEndedBy, sockEndedBy>>

\* the user clicks Start Conversation
ClickStart(urlOK) ==
    /\ ~state.sessionStarted
    /\ CanStart(This, urlOK)
    /\ Become(flush(handleSessionChange(This, urlOK)))
    /\ UNCHANGED built
    /\ finalsHandled' = 0 /\ handledIn' = 0
    /\ UNCHANGED <<skippedAt, silenced, overflowAt>>
    /\ NotEnded

\* the user clicks End Conversation
ClickEnd ==
    /\ state.sessionStarted
    /\ Become(flush(handleSessionChange(This, TRUE)))
    /\ UNCHANGED built
    /\ Ended("user")
    /\ UNCHANGED <<finalsHandled, handledIn, skippedAt, silenced, overflowAt>>

\* the user clicks Restart Conversation on an alert that offers it
ClickRestart(urlOK) ==
    /\ state.alert.showRestart
    /\ ~state.sessionStarted => CanStart(This, urlOK)
    /\ Become(flush(restartConversation(This, urlOK)))
    /\ UNCHANGED built
    /\ finalsHandled' = IF state.sessionStarted THEN finalsHandled ELSE 0
    /\ handledIn' = IF state.sessionStarted THEN handledIn ELSE 0
    /\ UNCHANGED <<skippedAt, silenced, overflowAt>>
    /\ NotEnded

\* the user dismisses the alert
ClickDismiss ==
    /\ state.alert # NoAlert
    /\ Become(flush(setState(This, [alert |-> NoAlert])))
    /\ UNCHANGED built
    /\ UNCHANGED <<finalsHandled, handledIn, skippedAt, silenced, overflowAt, micEndedBy, sockEndedBy>>

\* the user clicks New Session
ClickNewSession ==
    /\ state.sessionId < MaxSessionIds
    /\ Become(flush(newSession(This)))
    /\ UNCHANGED built
    /\ finalsHandled' = 0 /\ handledIn' = 0
    /\ UNCHANGED <<skippedAt, silenced, overflowAt>>
    /\ IF state.sessionStarted THEN Ended("user") ELSE NotEnded

\* the connection of socket s is established: readyState OPEN, then onopen
SockOpen(s) ==
    /\ socks[s].phase = "CONNECTING"
    /\ Become(onopen([This EXCEPT !.socks[s].phase = "OPEN"]))
    /\ UNCHANGED built
    /\ UNCHANGED <<finalsHandled, handledIn, skippedAt, silenced, overflowAt, micEndedBy, sockEndedBy>>

\* a frame arrives on socket s: onmessage, handleIncomingMessage
SockMessage(s, m) ==
    /\ socks[s].phase = "OPEN"
    /\ Become(onmessage(This, Frame(m)))
    /\ UNCHANGED built
    /\ finalsHandled' = IF WellFormed(m) /\ m.is_final THEN finalsHandled + 1
                        ELSE finalsHandled
    /\ handledIn' = handledIn + 1
    /\ UNCHANGED skippedAt
    /\ silenced' = IF m.type = "bidi_interruption" THEN Len(playQueue)
                   ELSE IF m.type = "bidi_audio_stream" /\ m.data = Base64
                           /\ m.size <= MAX_AUDIO_CHUNK_SIZE THEN 0
                   ELSE silenced
    /\ overflowAt' = IF /\ m.type = "bidi_audio_stream" /\ m.data = Base64
                        /\ m.size <= MAX_AUDIO_CHUNK_SIZE
                        /\ audioBufferSize + m.size > MAX_AUDIO_BUFFER_SIZE
                     THEN <<handledIn>> ELSE overflowAt
    /\ IF m.type = "bidi_connection_close" /\ state.sessionStarted
       THEN Ended("message") ELSE NotEnded

\* a frame arrives on socket s that JSON.parse rejects or turns into null
SockBadFrame(s, frame) ==
    /\ socks[s].phase = "OPEN"
    /\ Become(onmessage(This, frame))
    /\ UNCHANGED built
    /\ skippedAt' = <<handledIn>>
    /\ UNCHANGED <<finalsHandled, handledIn, silenced, overflowAt>>
    /\ NotEnded

\* the connection of socket s fails: readyState CLOSED, then onerror; its close
\* event follows (SockClose)
SockError(s) ==
    /\ socks[s].phase \in {"CONNECTING", "OPEN", "CLOSING"}
    /\ Become(onerror([This EXCEPT !.socks[s].phase = "FAILED"]))
    /\ UNCHANGED built
    /\ IF state.sessionStarted THEN Ended("error") ELSE NotEnded
    /\ UNCHANGED <<finalsHandled, handledIn, skippedAt, silenced, overflowAt>>

\* the connection of socket s is closed with a close code: readyState CLOSED, then
\* onclose.  After a failure the code is 1006.
SockClose(s, code) ==
    /\ socks[s].phase \in {"OPEN", "CLOSING", "FAILED"}
    /\ socks[s].phase = "FAILED" => code = 1006
    /\ Become(onclose([This EXCEPT !.socks[s].phase = "DONE"], code))
    /\ UNCHANGED built
    /\ IF state.sessionStarted THEN Ended("close") ELSE NotEnded
    /\ UNCHANGED <<finalsHandled, handledIn, skippedAt, silenced, overflowAt>>

\* getUserMedia of request m resolves: startMicrophone resumes, builds the
\* pipeline and stores it in this.mediaRecorder
MicGrant(m) ==
    /\ mics[m] = "pending"
    /\ Become([This EXCEPT !.mics[m] = "live", !.mediaRecorder = m])
    /\ UNCHANGED built
    /\ UNCHANGED <<finalsHandled, handledIn, skippedAt, silenced, overflowAt, micEndedBy, sockEndedBy>>

\* getUserMedia of request m rejects (permission denied, no device): the catch of
\* startMicrophone logs and rethrows, which rejects the promise nobody awaits
MicDeny(m) ==
    /\ mics[m] = "pending"
    /\ Become([This EXCEPT !.mics[m] = "failed"])
    /\ UNCHANGED built
    /\ UNCHANGED <<finalsHandled, handledIn, skippedAt, silenced, overflowAt, micEndedBy, sockEndedBy>>

\* the processor of pipeline m delivers a chunk of the given encoded length
AudioProcess(m, size) ==
    /\ mics[m] = "live"
    /\ Become(onaudioprocess(This, size))
    /\ UNCHANGED built
    /\ UNCHANGED <<finalsHandled, handledIn, skippedAt, silenced, overflowAt, micEndedBy, sockEndedBy>>

\* the player finishes the chunk it plays and goes on with the next one queued
PlayNext ==
    /\ playQueue # <<>>
    /\ playQueue' = Tail(playQueue)
    /\ UNCHANGED <<state, pending, chatMessages, socket, socks, mediaRecorder, mics,
                   audioBufferSize, played, eventLog, eventsIn, finalsHandled, handledIn,
                   skippedAt, silenced, overflowAt, micEndedBy, sockEndedBy, built>>

\* a caller builds a message: the call and the object returned are kept
Call(fn, voice, session, data, text) ==
    [fn |-> fn, voice |-> voice, session |-> session, data |-> data, text |-> text]
Build(call, result) ==
    /\ Len(built) < MaxBuilt
    /\ built' = Append(built, [call |-> call, result |-> result])
    /\ UNCHANGED <<state, pending, chatMessages, socket, socks, mediaRecorder, mics,
                   audioBufferSize, played, playQueue, eventLog, eventsIn, finalsHandled,
                   handledIn, skippedAt, silenced, overflowAt, micEndedBy, sockEndedBy>>
BuildAudioInput(data) == Build(Call("audioInput", "", NoSessionId, data, ""), audioInput(data))
BuildTextInput(text) == Build(Call("textInput", "", NoSessionId, 0, text), textInput(text))
BuildConfig(voice, session) ==
    Build(Call("config", voice, session, 0, ""), config(voice, session))
BuildClose == Build(Call("close", "", NoSessionId, 0, ""), close)

\* What bounds a run: the final fragments handled between two resets, the sessions
\* that open a socket, and the messages sent on a socket.
FinalsBounded(m) == (WellFormed(m) /\ m.is_final) => finalsHandled < MaxFinals
SessionsBounded == Cardinality({s \in SockIds : socks[s].phase # "none"}) < MaxSessions
QueueBounded(m) ==
    (m.type = "bidi_audio_stream" /\ m.data = Base64 /\ m.size <= MAX_AUDIO_CHUNK_SIZE)
        => Len(playQueue) < MaxQueued
InboundBounded == eventsIn < MaxInbound
SentBounded == IF socket = NoSocket THEN TRUE ELSE Len(socks[socket].sent) < MaxSent

Next ==
    \/ Flush
    \/ \E urlOK \in BOOLEAN : ClickStart(urlOK)
    \/ ClickEnd
    \/ \E urlOK \in BOOLEAN : ClickRestart(urlOK)
    \/ ClickDismiss
    \/ ClickNewSession
    \/ \E s \in SockIds : SockOpen(s)
    \/ \E s \in SockIds, m \in TranscriptMsgs \cup AudioMsgs \cup ConnectionCloseMsgs \cup ErrorMsgs
                                \cup InterruptionMsgs :
          InboundBounded /\ FinalsBounded(m) /\ QueueBounded(m) /\ SockMessage(s, m)
    \/ \E s \in SockIds, frame \in BadFrames : SockBadFrame(s, frame)
    \/ PlayNext
    \/ \E s \in SockIds : SockError(s)
    \/ \E s \in SockIds, code \in CloseCodes : SockClose(s, code)
    \/ \E m \in MicIds : MicGrant(m)
    \/ \E m \in MicIds : MicDeny(m)
    \/ \E m \in MicIds, size \in AudioSizes : SentBounded /\ AudioProcess(m, size)

Spec == Init /\ [][Next]_vars

\* The transcript reconciler in one conversation: the user starts once and may end;
\* the backend sends transcript fragments only.
FirstConversation == RequestedMics = {}

NextChat ==
    \/ Flush
    \/ FirstConversation /\ ClickStart(TRUE)
    \/ ClickEnd
    \/ \E s \in SockIds : SockOpen(s)
    \/ \E s \in SockIds, m \in TranscriptMsgs :
          InboundBounded /\ FinalsBounded(m) /\ SockMessage(s, m)

SpecChat == Init /\ [][NextChat]_vars

\* The session lifecycle: the user starts, ends and restarts sessions, the sockets
\* open, fail and close, the permission requests resolve; the backend is silent.
NextSession ==
    \/ Flush
    \/ \E urlOK \in BOOLEAN : (urlOK => SessionsBounded) /\ ClickStart(urlOK)
    \/ ClickEnd
    \/ \E urlOK \in BOOLEAN : (urlOK => SessionsBounded) /\ ClickRestart(urlOK)
    \/ ClickDismiss
    \/ \E s \in SockIds : SockOpen(s)
    \/ \E s \in SockIds : SockError(s)
    \/ \E s \in SockIds, code \in CloseCodes : SockClose(s, code)
    \/ \E m \in MicIds : MicGrant(m)
    \/ \E m \in MicIds : MicDeny(m)

SpecSession == Init /\ [][NextSession]_vars


\* The traffic of one conversation: the backend sends audio, errors and connection
\* closes, the microphone captures chunks.
NextTraffic ==
    \/ Flush
    \/ FirstConversation /\ ClickStart(TRUE)
    \/ ClickEnd
    \/ \E s \in SockIds : SockOpen(s)
    \/ \E s \in SockIds, m \in AudioMsgs \cup ConnectionCloseMsgs \cup ErrorMsgs \cup InterruptionMsgs
                                \cup InfoMsgs :
          InboundBounded /\ QueueBounded(m) /\ SockMessage(s, m)
    \/ PlayNext
    \/ \E m \in MicIds : MicGrant(m)
    \/ \E m \in MicIds, size \in AudioSizes : SentBounded /\ AudioProcess(m, size)

SpecTraffic == Init /\ [][NextTraffic]_vars

\* Inbound audio in one conversation: the backend streams chunks, the player plays.
NextAudioIn ==
    \/ Flush
    \/ FirstConversation /\ ClickStart(TRUE)
    \/ \E s \in SockIds : SockOpen(s)
    \/ \E s \in SockIds, m \in AudioMsgs \cup BadAudioMsgs :
          eventsIn < MaxAudioIn /\ QueueBounded(m) /\ SockMessage(s, m)
    \/ PlayNext

SpecAudioIn == Init /\ [][NextAudioIn]_vars

\* Frames of every kind in one conversation: fragments of the user's sentence,
\* errors, objects without a type, and data that is not a JSON object.
NextFrames ==
    \/ Flush
    \/ FirstConversation /\ ClickStart(TRUE)
    \/ ClickEnd
    \/ \E s \in SockIds : SockOpen(s)
    \/ \E s \in SockIds, m \in UserMsgs \cup ErrorMsgs \cup TypelessMsgs :
          InboundBounded /\ FinalsBounded(m) /\ SockMessage(s, m)
    \/ \E s \in SockIds, frame \in BadFrames : SockBadFrame(s, frame)

SpecFrames == Init /\ [][NextFrames]_vars

\* Sessions one after the other: the user starts, ends and renews sessions, the
\* sockets open, the microphone captures; nothing fails and the backend is silent.
NextReopen ==
    \/ Flush
    \/ ClickStart(TRUE)
    \/ ClickEnd
    \/ ClickNewSession
    \/ \E s \in SockIds : SockOpen(s)
    \/ \E m \in MicIds : MicGrant(m)
    \/ \E m \in MicIds, size \in AudioSizes : SentBounded /\ AudioProcess(m, size)

SpecReopen == Init /\ [][NextReopen]_vars

\* Recovery: the sockets fail and close, the backend reports errors and closes, and
\* the user starts, ends and restarts sessions; the permission prompt stays open.
NextRecovery ==
    \/ Flush
    \/ SessionsBounded /\ ClickStart(TRUE)
    \/ ClickEnd
    \/ (~state.sessionStarted => SessionsBounded) /\ ClickRestart(TRUE)
    \/ \E s \in SockIds : SockOpen(s)
    \/ \E s \in SockIds, m \in ConnectionCloseMsgs \cup ErrorMsgs \cup InterruptionMsgs :
          InboundBounded /\ SockMessage(s, m)
    \/ \E s \in SockIds : SockError(s)
    \/ \E s \in SockIds, code \in CloseCodes : SockClose(s, code)

SpecRecovery == Init /\ [][NextRecovery]_vars

\* Conversations one after the other: the user starts and ends sessions, the backend
\* sends the fragments of the user's sentence.
NextRestart ==
    \/ Flush
    \/ ClickStart(TRUE)
    \/ ClickEnd
    \/ \E s \in SockIds : SockOpen(s)
    \/ \E s \in SockIds, m \in UserMsgs :
          InboundBounded /\ FinalsBounded(m) /\ SockMessage(s, m)

SpecRestart == Init /\ [][NextRestart]_vars

\* The message builders alone, called with every argument.
NextBuilders ==
    \/ \E data \in AudioSizes : BuildAudioInput(data)
    \/ \E text \in TextArgs : BuildTextInput(text)
    \/ \E voice \in Voices, session \in SessionIdArgs : BuildConfig(voice, session)
    \/ BuildClose

SpecBuilders == Init /\ [][NextBuilders]_vars

\* ------------------------------------------------------------------ claims
InterimEntries(chat, role) ==
    {i \in 1..Len(chat) : chat[i].key.interim /\ chat[i].role = role}
FinalEntries(chat) == {i \in 1..Len(chat) : IsFinalEntry(chat[i])}

\* C1: once a final fragment for role R has been handled, the chat log holds no
\* in-progress entry for R: the open interim entry became the finalized one.  (The
\* scenario "turn the" interim, then "turn the light on" final, is the case of role
\* user on an empty log.)
C1_FinalClosesInterim ==
    [][\A s \in SockIds, m \in FinalMsgs :
          (WellFormed(m) /\ SockMessage(s, m)) => InterimEntries(chatMessages', m.role) = {}]_vars

\* C2: the rendered list shows the finalized entries in strictly increasing
\* sequence-number order, every interim entry after all finalized ones, and at most
\* one interim entry per role.
C2_RenderOrder ==
    LET shown == renderChatMessages(chatMessages)
    IN  /\ \A i, j \in 1..Len(shown) :
              (i < j /\ IsFinalEntry(shown[i]) /\ IsFinalEntry(shown[j]))
                  => shown[i].key.seq < shown[j].key.seq
        /\ \A i, j \in 1..Len(shown) :
              (i < j /\ IsFinalEntry(shown[j])) => IsFinalEntry(shown[i])
        /\ \A r \in Roles : Cardinality(InterimEntries(shown, r)) <= 1

\* C3: every final fragment for role R creates a finalized entry whose content is
\* the fragment's text and whose sequence number is greater than that of every
\* entry finalized before it, of either role.
C3_FinalGetsNextSeq ==
    [][\A s \in SockIds, m \in FinalMsgs :
          (WellFormed(m) /\ SockMessage(s, m)) =>
              \E i \in FinalEntries(chatMessages') :
                  /\ chatMessages'[i].role = m.role
                  /\ chatMessages'[i].content = m.text
                  /\ chatMessages'[i].key.seq > MaxSeq(chatMessages)]_vars

\* C4: between two resets the chat log holds as many finalized entries as
\* well-formed final fragments were handled: none is overwritten or removed.
C4_FinalsKept == Cardinality(FinalEntries(chatMessages)) = finalsHandled

\* C5: after each interim fragment for a role, the chat log holds exactly one
\* interim entry for that role, and its content is the fragment's text.
C5_OneInterimPerRole ==
    [][\A s \in SockIds, m \in InterimMsgs :
          (WellFormed(m) /\ SockMessage(s, m)) =>
              /\ Cardinality(InterimEntries(chatMessages', m.role)) = 1
              /\ \A i \in InterimEntries(chatMessages', m.role) :
                    chatMessages'[i].content = m.text]_vars

\* C5 witness: the user's interim entry was rewritten to the second text while an
\* interim entry of the assistant and a finalized entry are in the log.
C5_Witness ==
    /\ \E i \in InterimEntries(chatMessages, "user") :
          chatMessages[i].content = "turn the light on"
    /\ InterimEntries(chatMessages, "assistant") # {}
    /\ FinalEntries(chatMessages) # {}
    /\ state.currentTranscriptKey = Key("user", TRUE, 0)

Now == Applied(state, pending)
After == Applied(state', pending')
Active(s) == socks[s].phase \in {"CONNECTING", "OPEN"}

\* C6: when the microphone request of a start fails, the start is aborted: the
\* session is not started and the socket that start opened is neither connecting
\* nor open.  (micEndedBy[m] = {}: nothing else has ended that session.)
C6_MicFailureAbortsStart ==
    \A m \in MicIds :
        (mics[m] = "failed" /\ micEndedBy[m] = {}) =>
            /\ ~Now.sessionStarted
            /\ socket # NoSocket => ~Active(socket)

\* C7: when the user ends the session, `close` is sent exactly if the socket is
\* open, and the socket, whatever its state was, is closed: it is never open
\* afterwards.
C7_DisconnectClosesSocket ==
    [][/\ (ClickEnd /\ socket # NoSocket) =>
              socks'[socket].sent = IF socks[socket].phase = "OPEN"
                                    THEN Append(socks[socket].sent, close)
                                    ELSE socks[socket].sent
       /\ \A s \in SockIds : "user" \in sockEndedBy'[s] => socks'[s].phase # "OPEN"]_vars

\* C8: once endSession has returned, no microphone requested for the session it
\* ended is live, however the stop is ordered with the resolution of the request.
C8_StopReleasesMicrophone ==
    \A m \in MicIds : micEndedBy[m] # {} => mics[m] # "live"

\* C9: a close event sets status disconnected, and the alert by its code: 1000
\* leaves the alert as it was, 1005 sets a warning, any other code sets an error
\* whose message carries the code.
C9_CloseCodeAlert ==
    [][\A s \in SockIds, code \in CloseCodes :
          SockClose(s, code) =>
              /\ After.status = "disconnected"
              /\ code = NormalClosure => After.alert = Now.alert
              /\ code = NoStatusReceived => After.alert.type = "warning"
              /\ code \notin {NormalClosure, NoStatusReceived} =>
                    After.alert.type = "error" /\ After.alert.code = code]_vars

\* C9 witness: a close with code 4001 was handled and its updates applied.
C9_Witness ==
    /\ state.alert = ClosedUnexpectedlyAlert(4001)
    /\ state.status = "disconnected"
    /\ \E s \in SockIds : socks[s].phase = "DONE"

\* C10: a close event handled while a session is active ends the session: it is
\* not started, status is disconnected, the socket reference is cleared, the
\* inbound audio counter is 0, and the microphone of the session is released: no
\* microphone requested for it is live once the close has been handled.
C10_CloseEndsSession ==
    [][/\ \A s \in SockIds, code \in CloseCodes :
             (SockClose(s, code) /\ state.sessionStarted) =>
                 /\ ~After.sessionStarted
                 /\ After.status = "disconnected"
                 /\ socket' = NoSocket
                 /\ audioBufferSize' = 0
                 /\ mediaRecorder' = NoRecorder
       /\ \A m \in MicIds : "close" \in micEndedBy'[m] => mics'[m] # "live"]_vars

\* C11: a socket error sets an error alert that offers the restart and status
\* disconnected; an active session is ended (not started, socket reference and
\* capture pipeline cleared); with no active session, sessionStarted, the chat log
\* and the session id stay as they were.
C11_SocketError ==
    [][\A s \in SockIds :
          SockError(s) =>
              /\ After.alert.type = "error" /\ After.alert.showRestart
              /\ After.status = "disconnected"
              /\ state.sessionStarted =>
                    /\ ~After.sessionStarted
                    /\ socket' = NoSocket
                    /\ mediaRecorder' = NoRecorder
              /\ ~state.sessionStarted =>
                    /\ After.sessionStarted = Now.sessionStarted
                    /\ chatMessages' = chatMessages
                    /\ After.sessionId = Now.sessionId]_vars

\* C11 witness: the error of the session's socket ended a session whose microphone
\* was capturing, and the updates are applied.
C11_Witness ==
    /\ state.alert = SocketErrorAlert
    /\ state.status = "disconnected"
    /\ ~state.sessionStarted
    /\ \E s \in SockIds : "error" \in sockEndedBy[s] /\ socks[s].phase = "FAILED"
    /\ \E m \in MicIds : "error" \in micEndedBy[m] /\ mics[m] = "stopped"

\* C12: a bidi_error message sets a dismissible error alert that carries the
\* message text and offers the restart, and changes nothing else: sessionStarted
\* and every other state field, the socket and what it sent, the capture pipeline,
\* the chat log and the audio counter stay as they were.
C12_BidiErrorFrame ==
    [][\A s \in SockIds, m \in ErrorMsgs :
          SockMessage(s, m) =>
              /\ After.alert.type = "error"
              /\ After.alert.dismissible /\ After.alert.showRestart
              /\ m.reason # NoReason => After.alert.message = m.reason
              /\ \A f \in StateFields \ {"alert"} : After[f] = Now[f]
              /\ UNCHANGED <<socket, socks, mediaRecorder, mics, chatMessages,
                             audioBufferSize, played, playQueue, eventLog>>]_vars

\* C12 witness: "tool failed" is shown while the session goes on: started, socket
\* open, microphone capturing.
C12_Witness ==
    /\ state.alert.message = "tool failed"
    /\ state.alert.type = "error"
    /\ state.sessionStarted
    /\ socket # NoSocket /\ socks[socket].phase = "OPEN"
    /\ mediaRecorder # NoRecorder /\ mics[mediaRecorder] = "live"

\* What handling a bidi_connection_close message does at once: the warning alert
\* with the reason or the default text; with a session active, the pipeline held is
\* dropped, `close` is sent and the socket closed if it was open, the session is
\* not started; with none active, only the alert changes.
ConnectionCloseHandled ==
    \A s \in SockIds, m \in ConnectionCloseMsgs :
        SockMessage(s, m) =>
            /\ After.alert.type = "warning" /\ After.alert.dismissible
            /\ After.alert.message =
                  IF m.reason # NoReason THEN m.reason
                  ELSE "Connection closed. Please restart your conversation."
            /\ state.sessionStarted =>
                  /\ ~After.sessionStarted
                  /\ mediaRecorder' = NoRecorder
                  /\ IF socket # NoSocket
                     THEN IF socks[socket].phase = "OPEN"
                          THEN /\ socks'[socket].phase = "CLOSING"
                               /\ socks'[socket].sent = Append(socks[socket].sent, close)
                          ELSE socks'[socket] = socks[socket]
                     ELSE socks' = socks
            /\ ~state.sessionStarted =>
                  /\ \A f \in StateFields \ {"alert"} : After[f] = Now[f]
                  /\ UNCHANGED <<socket, socks, mediaRecorder, mics, chatMessages,
                                 audioBufferSize, played, playQueue, eventLog>>

\* C13: a bidi_connection_close message sets a dismissible warning alert (the
\* reason, or the default text) and tears an active session down: the microphone is
\* released (no microphone requested for the session is live once the message has
\* been handled), `close` is sent and the socket closed if it was open, the session
\* is not started; with no session active only the alert changes.
C13_ConnectionCloseTearsDown ==
    [][/\ ConnectionCloseHandled
       /\ \A m \in MicIds : "message" \in micEndedBy'[m] => mics'[m] # "live"]_vars

\* C14: no bidi_audio_input longer than 65536 is ever on a socket: a captured
\* chunk over the limit changes nothing on any socket, and a chunk within the limit,
\* captured while the session is started and the socket open, is sent whole.
C14_CaptureLimit ==
    [][/\ \A s \in SockIds : \A i \in 1..Len(socks'[s].sent) :
             socks'[s].sent[i].type = "bidi_audio_input" =>
                 socks'[s].sent[i].data <= MAX_AUDIO_CHUNK_SIZE
       /\ \A m \in MicIds, size \in AudioSizes :
             AudioProcess(m, size) =>
                 IF size > MAX_AUDIO_CHUNK_SIZE
                 THEN UNCHANGED <<socks, eventLog>>
                 ELSE (state.sessionStarted /\ socket # NoSocket /\ socks[socket].phase = "OPEN")
                          => socks'[socket].sent = Append(socks[socket].sent, audioInput(size))]_vars

\* C14 witness: a chunk of exactly 65536 was sent after the config.
C14_Witness ==
    \E s \in SockIds :
        /\ Len(socks[s].sent) = 2
        /\ socks[s].sent[1].type = "config"
        /\ socks[s].sent[2] = audioInput(MAX_AUDIO_CHUNK_SIZE)

\* C15: an inbound audio chunk is handed to playback only if its length is at most
\* 65536: nothing longer is ever played, and a longer chunk leaves playback as it
\* was.
C15_PlaybackLimit ==
    [][/\ \A n \in played' : n <= MAX_AUDIO_CHUNK_SIZE
       /\ \A s \in SockIds, m \in AudioMsgs :
             SockMessage(s, m) =>
                 /\ played' \subseteq played \cup {m.size}
                 /\ m.size > MAX_AUDIO_CHUNK_SIZE => played' = played]_vars

\* C15 witness: chunks of 32768 and of exactly 65536 were played.
C15_Witness == played = {32768, MAX_AUDIO_CHUNK_SIZE}

\* C16: the inbound audio counter never exceeds 1048576: an accepted chunk that
\* would take the sum over 1048576 sets the counter to the chunk's length, and any
\* sum up to 1048576, that value included, is kept.
C16_CounterBounded ==
    [][/\ audioBufferSize' <= MAX_AUDIO_BUFFER_SIZE
       /\ \A s \in SockIds, m \in AudioMsgs :
             (SockMessage(s, m) /\ m.size <= MAX_AUDIO_CHUNK_SIZE) =>
                 audioBufferSize' =
                     IF audioBufferSize + m.size > MAX_AUDIO_BUFFER_SIZE THEN m.size
                     ELSE audioBufferSize + m.size]_vars

\* C16 witness: the counter stands at exactly 1048576.
C16_Witness == audioBufferSize = MAX_AUDIO_BUFFER_SIZE

IsAudioInput(event) == event.type = "bidi_audio_input"
AudioSent(s) == SelectSeq(socks[s].sent, IsAudioInput)
CanSend == socket # NoSocket /\ socks[socket].phase = "OPEN"

\* C17: sendEvent without an open socket sends, queues and records nothing: a
\* chunk captured then leaves every socket and the event log as they were, an
\* onopen whose config finds no open this.socket does too, and the audio messages
\* on a socket change only by a send on the open this.socket, so that nothing
\* dropped is transmitted later.
C17_DroppedWhenNotOpen ==
    [][/\ \A m \in MicIds, size \in AudioSizes :
             (AudioProcess(m, size) /\ ~CanSend) => UNCHANGED <<socks, eventLog>>
       /\ \A s \in SockIds :
             (SockOpen(s) /\ socket # s /\ ~CanSend) =>
                 /\ eventLog' = eventLog
                 /\ \A t \in SockIds : socks'[t].sent = socks[t].sent
       /\ \A t \in SockIds :
             AudioSent(t)' # AudioSent(t) => (CanSend /\ t = socket)]_vars

\* C17 witness: the microphone captures in a started session whose socket is
\* still connecting, and neither the socket nor the event log holds anything.
C17_Witness ==
    /\ state.sessionStarted
    /\ mediaRecorder # NoRecorder /\ mics[mediaRecorder] = "live"
    /\ socket # NoSocket /\ socks[socket].phase = "CONNECTING"
    /\ socks[socket].sent = <<>> /\ eventLog = <<>>

\* C18: the timestamp is stamped on an outbound event before the event is
\* serialized and sent: every message on a socket carries the timestamp.
C18_StampedBeforeSend ==
    \A s \in SockIds : \A i \in 1..Len(socks[s].sent) :
        "timestamp" \in DOMAIN socks[s].sent[i]

Configs(sent) == {i \in 1..Len(sent) : sent[i].type = "config"}

\* C19: when the socket of the current session opens, the first message on it is
\* the config with the voice and the session id selected then; a connection that
\* carries anything carries the config first and exactly one config, so no
\* bidi_audio_input precedes it.
C19_ConfigOnceAndFirst ==
    [][/\ \A s \in SockIds :
             (SockOpen(s) /\ socket = s) =>
                 socks'[s].sent = <<config(state.configVoiceId, state.sessionId)>>
       /\ \A s \in SockIds :
             socks'[s].sent # <<>> =>
                 /\ socks'[s].sent[1].type = "config"
                 /\ Cardinality(Configs(socks'[s].sent)) = 1]_vars

\* What ending a session whose socket is open does to the socket and the session:
\* `close` is sent, the socket is closed, the session is not started; and once
\* `close` is on a socket nothing more is sent on it.
CloseIsLast ==
    /\ (ClickEnd /\ CanSend) =>
          /\ socks'[socket].sent = Append(socks[socket].sent, close)
          /\ socks'[socket].phase = "CLOSING"
          /\ mediaRecorder' = NoRecorder
          /\ ~After.sessionStarted
    /\ \A s \in SockIds :
          (socks[s].sent # <<>> /\ socks[s].sent[Len(socks[s].sent)].type = "close")
              => socks'[s].sent = socks[s].sent

\* C20: when the user ends a started session whose socket is open, the microphone
\* capture is stopped (no microphone is capturing once the handler has run),
\* `close` is sent, the socket is closed and the session marked not started;
\* `close` is the last message on that socket, no bidi_audio_input follows it.
C20_EndSessionOrder ==
    [][/\ CloseIsLast
       /\ (ClickEnd /\ CanSend) => \A m \in MicIds : mics'[m] # "live"]_vars

\* C21: every bidi_interruption message empties the playback queue, however many
\* chunks were queued; and a queue that holds nothing starts to hold something only
\* when a bidi_audio_stream chunk is accepted, so nothing plays from the
\* interruption until then.
C21_InterruptionSilences ==
    [][/\ \A s \in SockIds, m \in InterruptionMsgs : SockMessage(s, m) => playQueue' = <<>>
       /\ silenced > 0 => playQueue = <<>>
       /\ PlayNext => playQueue # <<>>
       /\ (playQueue = <<>> /\ playQueue' # <<>>) =>
             \E s \in SockIds, m \in AudioMsgs :
                 SockMessage(s, m) /\ m.size <= MAX_AUDIO_CHUNK_SIZE]_vars

\* C21 witness: an interruption discarded a queue of two chunks and nothing has
\* been accepted since.
C21_Witness == silenced = 2 /\ playQueue = <<>>

Created(sockets) == {s \in SockIds : sockets[s].phase # "none"}

\* C22: a socket is created only by the user's click on Start Conversation or on
\* Restart Conversation, and only such a click turns sessionStarted from false to
\* true; a socket close, a socket error and an inbound message create no socket and
\* leave a session that is not started not started.
C22_NoAutomaticReconnect ==
    [][/\ (Created(socks') # Created(socks) \/ (~Now.sessionStarted /\ After.sessionStarted)
                                              \/ (~state.sessionStarted /\ state'.sessionStarted))
             => (ClickStart(TRUE) \/ ClickRestart(TRUE))
       /\ \A s \in SockIds :
             (SockError(s) \/ (\E code \in CloseCodes : SockClose(s, code))
                           \/ (\E m \in ConnectionCloseMsgs \cup ErrorMsgs : SockMessage(s, m)))
                 => /\ Created(socks') = Created(socks)
                    /\ socket' \in {socket, NoSocket}
                    /\ ~After.sessionStarted \/ (Now.sessionStarted /\ state.sessionStarted)]_vars

\* C22 witness: the socket of a session was closed with code 1006, the session
\* ended, and no socket has been created since: the alert offers the restart.
C22_Witness ==
    /\ socks[1].phase = "DONE" /\ "close" \in sockEndedBy[1]
    /\ socket = NoSocket /\ ~state.sessionStarted
    /\ Created(socks) = {1}
    /\ state.alert = ClosedUnexpectedlyAlert(1006)

\* What the New Session button does at once: with a session started, the pipeline
\* held is dropped, `close` is sent and the socket closed if it was open; then the
\* session id is a new value, the chat log and the event log are empty, the sequence
\* counter is 0 and the session is not started.
\* And the session id changes in no other step.
NewSessionResets ==
    /\ ClickNewSession =>
          /\ state.sessionStarted =>
                /\ mediaRecorder' = NoRecorder /\ socket' = NoSocket
                /\ IF socket # NoSocket
                   THEN IF socks[socket].phase = "OPEN"
                        THEN /\ socks'[socket].phase = "CLOSING"
                             /\ socks'[socket].sent = Append(socks[socket].sent, close)
                        ELSE socks'[socket] = socks[socket]
                   ELSE socks' = socks
          /\ ~state.sessionStarted => UNCHANGED <<socket, socks, mediaRecorder, mics>>
          /\ state'.sessionId > state.sessionId
          /\ chatMessages' = <<>> /\ eventLog' = <<>>
          /\ state'.messageCounter = 0 /\ state'.currentTranscriptKey = NoKey
          /\ ~state'.sessionStarted
          /\ pending' = NoPending
    /\ (After.sessionId # Now.sessionId \/ state'.sessionId # state.sessionId) => ClickNewSession

\* C23: New Session, with a session started, performs the stop sequence first: the
\* microphone is released (no microphone is capturing once the handler has run),
\* `close` is sent and the socket closed if it was open; afterwards the session id
\* is a new value, the chat log and the event log are empty, the sequence counter is
\* 0 and the session is not started.  No other step changes the session id.
C23_NewSession ==
    [][/\ NewSessionResets
       /\ (ClickNewSession /\ state.sessionStarted) => \A m \in MicIds : mics'[m] # "live"]_vars

\* C24: a start from the not-started state empties the chat log and the event
\* log and sets the sequence counter to 0, creates a socket on which nothing has
\* been handled yet, requests the microphone and marks the session started; ending
\* a session leaves the chat log and the sequence counter as they were.
C24_StartResetsStopKeeps ==
    [][/\ ClickStart(TRUE) =>
             /\ chatMessages' = <<>> /\ eventLog' = <<>>
             /\ state'.messageCounter = 0 /\ state'.currentTranscriptKey = NoKey
             /\ pending' = NoPending
             /\ socket' \notin Created(socks) \cup {NoSocket}
             /\ socks'[socket'] = [phase |-> "CONNECTING", sent |-> <<>>]
             /\ \E m \in MicIds : mics[m] = "none" /\ mics'[m] = "pending"
             /\ state'.sessionStarted
       /\ ClickEnd =>
             /\ chatMessages' = chatMessages
             /\ After.messageCounter = Now.messageCounter]_vars

\* C24 witness: a second session was started after the first one was ended with
\* its socket open: the logs are empty, the counter is 0, the socket is new.
C24_Witness ==
    /\ Created(socks) = {1, 2} /\ socket = 2
    /\ socks[1].phase = "CLOSING" /\ socks[2].phase = "CONNECTING"
    /\ state.sessionStarted
    /\ chatMessages = <<>> /\ eventLog = <<>> /\ state.messageCounter = 0

\* C25: a message of a type the client does not know, and each lifecycle message
\* that is only logged, changes no session state (the state fields, queued updates
\* included, the chat log, the socket and what it sent, the capture pipeline, the
\* audio counter and the playback) and adds exactly one inbound entry to the event
\* log.
C25_InfoMessagesOnlyLogged ==
    [][\A s \in SockIds, m \in InfoMsgs :
          SockMessage(s, m) =>
              /\ eventsIn' = eventsIn + 1 /\ eventsIn' = handledIn'
              /\ UNCHANGED <<state, pending, chatMessages, socket, socks, mediaRecorder, mics,
                             audioBufferSize, played, playQueue, eventLog>>]_vars

\* C25 witness: two messages were logged in a session that goes on untouched:
\* started, socket open with its config sent, nothing in the chat log, no alert.
C25_Witness ==
    /\ eventsIn = 2 /\ played = {} /\ silenced = 0 /\ audioBufferSize = 0
    /\ state.sessionStarted /\ state.alert = NoAlert /\ state.status = "connected"
    /\ socket # NoSocket /\ socks[socket].phase = "OPEN" /\ Len(socks[socket].sent) = 1
    /\ chatMessages = <<>>

\* C26: a frame that is not JSON or is the JSON null, and an object without a
\* type, is skipped alone: it changes no session state (the state fields, queued
\* updates included, the chat log, the socket and what it sent, the capture
\* pipeline, the audio counter, the playback), so the socket stays open and the
\* messages after it are handled as they would have been.
C26_BadFrameSkipped ==
    [][/\ \A s \in SockIds, frame \in BadFrames :
             SockBadFrame(s, frame) =>
                 UNCHANGED <<state, pending, chatMessages, socket, socks, mediaRecorder, mics,
                             audioBufferSize, played, playQueue, eventLog, eventsIn>>
       /\ \A s \in SockIds, m \in TypelessMsgs :
             SockMessage(s, m) =>
                 UNCHANGED <<state, pending, chatMessages, socket, socks, mediaRecorder, mics,
                             audioBufferSize, played, playQueue, eventLog>>]_vars

\* C26 witness: a frame was skipped after the interim fragment "turn the", and the
\* final fragment that came after it is in the chat log of the running session.
C26_Witness ==
    /\ skippedAt = <<1>> /\ handledIn = 2
    /\ \E i \in FinalEntries(chatMessages) : chatMessages[i].content = "turn the light on"
    /\ state.sessionStarted /\ state.alert = NoAlert
    /\ socket # NoSocket /\ socks[socket].phase = "OPEN"

C28_OneActiveSocket ==
    [][/\ Cardinality({s \in SockIds : Active(s)}) <= 1
       /\ (ClickStart(TRUE) /\ \E s \in SockIds : Active(s)) =>
             Created(socks') = Created(socks)]_vars

Holds(entries, role, text) ==
    \E i \in 1..Len(entries) : entries[i].role = role /\ entries[i].content = text

\* C29: right after a transcript fragment with a role and a text, interim or
\* final, has been handled, the chat log holds an entry with that role whose
\* content is that text, and the rendered list shows it.
C29_FragmentShown ==
    [][\A s \in SockIds, m \in TranscriptMsgs :
          (WellFormed(m) /\ SockMessage(s, m)) =>
              /\ Holds(chatMessages', m.role, m.text)
              /\ Holds(renderChatMessages(chatMessages'), m.role, m.text)]_vars

\* C29 witness: after three fragments or more the log holds the assistant's
\* finalized sentence and the user's interim "turn the".
C29_Witness ==
    /\ \E i \in FinalEntries(chatMessages) :
          chatMessages[i].role = "assistant" /\ chatMessages[i].content = "turn the light on"
    /\ \E i \in InterimEntries(chatMessages, "user") : chatMessages[i].content = "turn the"
    /\ handledIn >= 3

\* C30: each builder returns an object with exactly its discriminator and its
\* payload fields: audioInput(d) is {type: bidi_audio_input, data: d}, textInput(t)
\* is {type: bidi_text_input, text: t}, close() is {type: close}, and config(v, s)
\* is {type: config, voice_id: v} with a field session_id, equal to s, exactly if s
\* is supplied and not empty.
C30_BuilderShapes ==
    \A i \in 1..Len(built) :
        LET call == built[i].call
            result == built[i].result
        IN  /\ call.fn = "audioInput" =>
                  /\ DOMAIN result = {"type", "data"}
                  /\ result.type = "bidi_audio_input" /\ result.data = call.data
            /\ call.fn = "textInput" =>
                  /\ DOMAIN result = {"type", "text"}
                  /\ result.type = "bidi_text_input" /\ result.text = call.text
            /\ call.fn = "close" => DOMAIN result = {"type"} /\ result.type = "close"
            /\ call.fn = "config" =>
                  /\ result.type = "config" /\ result.voice_id = call.voice
                  /\ IF call.session \in {NoSessionId, EmptySessionId}
                     THEN DOMAIN result = {"type", "voice_id"}
                     ELSE /\ DOMAIN result = {"type", "voice_id", "session_id"}
                          /\ result.session_id = call.session

\* C30 witness: config was built without a session id and then with one.
C30_Witness ==
    /\ Len(built) = 2
    /\ built[1].call = Call("config", "tiffany", NoSessionId, 0, "")
    /\ built[2].call = Call("config", "tiffany", 2, 0, "")
    /\ "session_id" \in DOMAIN built[2].result

\* C31: a final fragment for a role leaves the interim entry of the other role
\* where it is and as it is; and an interim fragment for a role that has an interim
\* entry rewrites that entry in place: the log grows by no entry.
C31_OtherRoleUntouched ==
    [][/\ \A s \in SockIds, m \in FinalMsgs :
             (WellFormed(m) /\ SockMessage(s, m)) =>
                 \A r \in Roles \ {m.role} :
                     /\ InterimEntries(chatMessages', r) = InterimEntries(chatMessages, r)
                     /\ \A i \in InterimEntries(chatMessages, r) :
                           chatMessages'[i] = chatMessages[i]
       /\ \A s \in SockIds, m \in InterimMsgs :
             (WellFormed(m) /\ SockMessage(s, m) /\ InterimEntries(chatMessages, m.role) # {}) =>
                 /\ Len(chatMessages') = Len(chatMessages)
                 /\ InterimEntries(chatMessages', m.role) = InterimEntries(chatMessages, m.role)
                 /\ \A i \in InterimEntries(chatMessages', m.role) :
                       chatMessages'[i].content = m.text]_vars

\* C31 witness: the user's interim entry, opened before the assistant's sentence
\* was finalized, was rewritten by an interim fragment that came after it.
C31_Witness ==
    /\ handledIn = 3 /\ Len(chatMessages) = 2
    /\ chatMessages[1].key = Key("user", TRUE, 0)
    /\ chatMessages[1].content = "turn the light on"
    /\ chatMessages[2].role = "assistant" /\ IsFinalEntry(chatMessages[2])
    /\ Now.currentTranscriptKey = Key("user", TRUE, 0)

\* C32: a transcript fragment without a role or with an undefined text, final or
\* not, is ignored: the chat log, the sequence counter and the open-interim marker
\* stay as they are, no state update is queued and no entry is created.
C32_MalformedFragmentIgnored ==
    [][\A s \in SockIds, m \in TranscriptMsgs :
           (~WellFormed(m) /\ SockMessage(s, m)) =>
               /\ chatMessages' = chatMessages
               /\ state' = state /\ pending' = pending
               /\ After.messageCounter = Now.messageCounter
               /\ After.currentTranscriptKey = Now.currentTranscriptKey
               /\ handledIn' = handledIn + 1]_vars

\* C32 witness: two fragments were handled, one of them a well-formed final one,
\* and the log holds the finalized entry alone.
C32_Witness ==
    /\ handledIn = 2 /\ finalsHandled = 1
    /\ Len(chatMessages) = 1 /\ IsFinalEntry(chatMessages[1])
    /\ Now.messageCounter = 1

\* what an inbound audio message may not touch: the session, the sockets, the
\* microphone and the chat
SessionKept == UNCHANGED <<state, pending, socket, socks, mediaRecorder, mics, chatMessages>>

\* C33: the accepted chunk that takes the counter over 1048576 is played like any
\* other, and the overflow leaves sessionStarted, the socket and the alert alone.
C33_OverflowIsSoft ==
    [][\A s \in SockIds, m \in AudioMsgs :
           (/\ SockMessage(s, m)
            /\ m.size <= MAX_AUDIO_CHUNK_SIZE
            /\ audioBufferSize + m.size > MAX_AUDIO_BUFFER_SIZE) =>
               /\ playQueue' = Append(playQueue, m.size)
               /\ m.size \in played'
               /\ After.sessionStarted = Now.sessionStarted
               /\ After.alert = Now.alert
               /\ socket' = socket /\ socks' = socks]_vars

\* C33 witness: seventeen chunks have come in, the counter has started over and
\* the session is on, with a chunk waiting to be played.
C33_Witness ==
    /\ overflowAt = <<16>> /\ handledIn = 17 /\ audioBufferSize = MAX_AUDIO_CHUNK_SIZE
    /\ Now.sessionStarted /\ Now.alert = NoAlert
    /\ socket # NoSocket /\ socks[socket].phase = "OPEN"
    /\ playQueue # <<>> /\ playQueue[Len(playQueue)] = MAX_AUDIO_CHUNK_SIZE

LivePipelines == {m \in MicIds : mics[m] = "live"}

\* C35: at every moment at most one microphone capture pipeline is live, however
\* the starts and stops are ordered with the resolution of the permission requests.
C35_OnePipeline == Cardinality(LivePipelines) <= 1

\* an open, error or close event is delivered for socket s
SockEvent(s) == SockOpen(s) \/ SockError(s) \/ \E code \in CloseCodes : SockClose(s, code)

\* C36: an open, error or close event of a socket that is not this.socket leaves
\* the current session alone: sessionStarted, this.socket, the microphone capture
\* and the status are as before.
C36_StaleSocketEvents ==
    [][\A s \in SockIds :
           (SockEvent(s) /\ socket # s) =>
               /\ After.sessionStarted = Now.sessionStarted
               /\ After.status = Now.status
               /\ socket' = socket
               /\ mediaRecorder' = mediaRecorder /\ mics' = mics]_vars

\* C37: whenever status is connected, this.socket is set and that socket is open.
C37_ConnectedHasOpenSocket == Now.status = "connected" => CanSend

\* C38: between handlers, a started session holds a socket in this.socket that is
\* connecting or open; in particular a start whose socket could not be created
\* does not leave the session started.
C38_StartedHasSocket == Now.sessionStarted => (socket # NoSocket /\ Active(socket))

\* the `close` messages transmitted on socket s
Closes(s) == {i \in 1..Len(socks[s].sent) : socks[s].sent[i].type = "close"}
\* the callers of endSession: the user's stop, a bidi_connection_close message, a
\* socket error and a socket close
Enders == {"user", "message", "error", "close"}

\* C39: endSession called again right after endSession changes nothing and
\* transmits nothing, in whatever state the first call found the client; and no
\* socket ever carries more than one `close`, however many of the user's stop, a
\* bidi_connection_close message, a socket error and a socket close end the session.
C39_EndSessionIdempotent ==
    /\ endSession(endSession(This)) = endSession(This)
    /\ \A s \in SockIds : Cardinality(Closes(s)) <= 1

\* C39 witness: endSession ran for one session from three of its callers, and the
\* socket of that session carries its one `close`.
C39_Witness ==
    /\ \E m \in MicIds : Cardinality(micEndedBy[m] \cap Enders) >= 3
    /\ \E s \in SockIds : Cardinality(Closes(s)) = 1

====
